---- MODULE Spec2Model ----
\* TaskMGR (src/taskmgr.py): a sampling thread (SystemMonitor.run) that emits
\* one telemetry dict per cycle through the queued Qt signal data_updated, and
\* the GUI thread (SystemDashboard) that consumes the dicts and owns pinned_pid.
EXTENDS Integers, Sequences, FiniteSets, TLC

\* ---------------------------------------------------------------- bounds
MaxPid == 2          \* host pids are 0..MaxPid (pid 0: the idle/kernel process)
MaxCpu == 1          \* cpu_percent readings are 0..MaxCpu
MaxCycles == 2       \* sampling cycles started in one run of the model
MaxThreads == 2      \* thread slots a SystemMonitor could occupy
MaxFaults == 1       \* collectors the environment makes raise in one cycle

\* The [:100] of _get_process_data and _update_processes, scaled to the model's
\* MaxPid + 1 processes so that the truncation cuts a live process.
ProcCap == 2

\* Python's None for pinned_pid (pids are >= 0).
None == 0 - 1

Pids == 0..MaxPid
CpuVals == 0..MaxCpu
Threads == 1..MaxThreads

\* The keys of the dict built in run(), in the order the dict display
\* evaluates them.
Collectors == <<"cpu", "gpu", "memory", "disk", "processes", "network">>
CollectorSet == {Collectors[i] : i \in 1..Len(Collectors)}

VARIABLES
    running,        \* the application process itself is alive
    pc,             \* per thread slot: "unstarted", "top", "collect", "except",
                    \* "sleep", or "finished" once run() has returned
    cur,            \* per thread slot: the number of its cycle in progress, or 0
    cycle,          \* number of cycles started so far
    nbad,           \* collectors failing in the cycle whose exception is handled
    slept,          \* per thread slot: msleep calls returned since its latest
                    \* cycle ended
    stopRequested,  \* a cooperative stop has been requested of the thread
    late,           \* numbers of the cycles started after the stop request
    queue,          \* dicts posted by data_updated.emit, not yet delivered
    emitted,        \* ids of the dicts emitted so far (history)
    delivered,      \* ids of the dicts handed to _update_ui so far (history)
    pinned_pid,     \* SystemDashboard.pinned_pid
    table,          \* column 0 of process_table: the pid texts, row by row
    highlighted,    \* rows of process_table carrying the highlight colour
    dialog,         \* pid shown by the open Ctrl+Z confirmation, or None
    last,           \* the GUI handler run by the latest step, with its inputs
    tog,            \* the toggles of one pid run by the latest steps
    enumIn,         \* an enumeration handed to _get_process_data on its own
    listOut         \* what it returned for enumIn, once it has run

vars == <<running, pc, cur, cycle, nbad, slept, stopRequested, late,
          queue, emitted, delivered, pinned_pid, table, highlighted, dialog,
          last, tog, enumIn, listOut>>

hostVars == <<running>>
monVars == <<pc, cur, cycle, nbad, slept, late>>
chanVars == <<queue, emitted, delivered>>
guiVars == <<pinned_pid, table, highlighted, dialog>>
sortVars == <<enumIn, listOut>>

\* ------------------------------------------------------------ sequences
Range(s) == {s[i] : i \in 1..Len(s)}

Take(s, n) == SubSeq(s, 1, IF Len(s) < n THEN Len(s) ELSE n)

NoDup(s) == \A i, j \in 1..Len(s) : i # j => s[i] # s[j]

\* ------------------------------------------------------- str() and int()
\* str(pid) as the sequence of its decimal digits, int(text) as their value.
RECURSIVE Str(_)
Str(n) == IF n < 10 THEN <<n>> ELSE Append(Str(n \div 10), n % 10)

RECURSIVE ParseInt(_)
ParseInt(s) ==
    IF Len(s) = 1 THEN s[1]
    ELSE 10 * ParseInt(SubSeq(s, 1, Len(s) - 1)) + s[Len(s)]

\* ------------------------------------------------- _get_process_data
\* One item of psutil.process_iter: pid, whether the name is non-empty, and
\* the cpu_percent reading.  The tuple built from it is <<pid, cpu>>.
Item(p, named, c) == [pid |-> p, named |-> named, cpu |-> c]

RECURSIVE InsertDesc_unstable(_, _)
InsertDesc_unstable(e, s) ==
    IF s = <<>> THEN <<e>>
    ELSE IF s[1][2] > e[2] THEN <<s[1]>> \o InsertDesc_unstable(e, Tail(s))
    ELSE <<e>> \o s

\* sorted(..., key=cpu, reverse=True) is stable: among equal keys the earlier
\* element of the input stays first.
RECURSIVE InsertDesc(_, _)
InsertDesc(e, s) ==
    IF s = <<>> THEN <<e>>
    ELSE IF s[1][2] >= e[2] THEN <<s[1]>> \o InsertDesc(e, Tail(s))
    ELSE <<e>> \o s

RECURSIVE SortedDesc(_)
SortedDesc(s) ==
    IF s = <<>> THEN <<>>
    ELSE InsertDesc(s[Len(s)], SortedDesc(SubSeq(s, 1, Len(s) - 1)))

RECURSIVE Tuples(_)
Tuples(enum) ==
    IF enum = <<>> THEN <<>>
    ELSE (IF enum[1].named THEN << <<enum[1].pid, enum[1].cpu>> >> ELSE <<>>)
         \o Tuples(Tail(enum))

get_process_data(enum) == Take(SortedDesc(Tuples(enum)), ProcCap)

PidsOf(processes) == [i \in 1..Len(processes) |-> processes[i][1]]

\* psutil.process_iter yields the live processes in ascending pid order.
RECURSIVE Ascending(_)
Ascending(S) ==
    IF S = {} THEN <<>>
    ELSE LET m == CHOOSE x \in S : \A y \in S : x <= y
         IN <<m>> \o Ascending(S \ {m})

Enumerations(S) ==
    LET order == Ascending(S)
    IN {[i \in 1..Len(order) |-> Item(order[i], nm[order[i]], cp[order[i]])] :
            nm \in [S -> BOOLEAN], cp \in [S -> CpuVals]}

\* The host is the environment: any set of pids may be living when a cycle
\* enumerates the processes, with any names and readings.
HostEnumerations == UNION {Enumerations(S) : S \in SUBSET Pids}

\* What _get_process_data can return on this host.
ProcessLists == {get_process_data(enum) : enum \in HostEnumerations}

\* ------------------------------------------------------------- the dict
\* The dict of one cycle.  Of each process tuple the model keeps the pid: the
\* name, cpu and rss are only formatted into cells that nothing reads back.
Snapshot(n, processes) ==
    [id |-> n, fields |-> CollectorSet, processes |-> PidsOf(processes)]

\* The collectors that can raise: none of lines 35-109 catches what psutil or
\* GPUtil raise, apart from the model and temperature helpers of the cpu one.
FaultSets == {B \in SUBSET CollectorSet : Cardinality(B) \in 1..MaxFaults}

\* ------------------------------------------------- start_monitoring
start_thread(pcs) ==
    LET free == {t \in Threads : pcs[t] = "unstarted"}
        t == CHOOSE x \in free : \A y \in free : x <= y
    IN [pcs EXCEPT ![t] = "top"]

start_monitoring_twice(pcs) == start_thread(start_thread(pcs))

\* SystemMonitor() ; connect ; start(): one more thread runs run().
start_monitoring(pcs) == start_thread(pcs)

\* listOut before _get_process_data has run on enumIn.
NotRun == << <<None, None>> >>

\* History of the GUI thread: which handler the latest step ran, on which
\* pinned_pid and pid and with which outcome, the message box it ended with
\* and the pid its confirmation showed; NoOp after any other step.
NoOp ==
    [op |-> "none", pin |-> None, pid |-> None, hit |-> FALSE, ok |-> FALSE,
     msg |-> "none", shown |-> None]
NoTog == [n |-> 0, pid |-> None, start |-> None]
NotGui == last' = NoOp /\ tog' = NoTog /\ UNCHANGED sortVars

\* SystemDashboard.__init__ has run: pinned_pid = None, the tables are empty
\* and the monitor thread is started.
InitApp ==
    /\ running = TRUE
    /\ pc = start_monitoring([t \in Threads |-> "unstarted"])
    /\ cur = [t \in Threads |-> 0]
    /\ cycle = 0
    /\ nbad = 0
    /\ slept = [t \in Threads |-> 0]
    /\ stopRequested = FALSE
    /\ late = {}
    /\ queue = <<>>
    /\ emitted = <<>>
    /\ delivered = <<>>
    /\ pinned_pid = None
    /\ table = <<>>
    /\ highlighted = {}
    /\ dialog = None
    /\ last = NoOp
    /\ tog = NoTog

Init ==
    /\ InitApp
    /\ enumIn = <<>>
    /\ listOut = NotRun

\* ------------------------------------------------------ SystemMonitor.run
\* `while True:` and the entry into the try block: a new cycle starts.  The
\* loop condition reads nothing, a stop request included.
RunTop(t) ==
    /\ running
    /\ NotGui
    /\ pc[t] = "top"
    /\ cycle < MaxCycles
    /\ cycle' = cycle + 1
    /\ cur' = [cur EXCEPT ![t] = cycle + 1]
    /\ pc' = [pc EXCEPT ![t] = "collect"]
    /\ late' = (IF stopRequested THEN late \cup {cycle + 1} ELSE late)
    /\ UNCHANGED <<hostVars, chanVars, guiVars, nbad, slept, stopRequested>>

emit_twice(q, snapshot) == Append(Append(q, snapshot), snapshot)

\* data_updated.emit(data): the connection to _update_ui crosses threads, so
\* the dict is posted to the GUI thread's event queue and emit returns.
emit(q, snapshot) == Append(q, snapshot)

\* The six collectors return, in the order of the dict display, the dict is
\* emitted and the thread enters msleep(3500).
CollectEmit(t) ==
    /\ running
    /\ NotGui
    /\ pc[t] = "collect"
    /\ \E processes \in ProcessLists :
         queue' = emit(queue, Snapshot(cur[t], processes))
    /\ emitted' = Append(emitted, cur[t])
    /\ cur' = [cur EXCEPT ![t] = 0]
    /\ pc' = [pc EXCEPT ![t] = "sleep"]
    /\ slept' = [slept EXCEPT ![t] = 0]
    /\ UNCHANGED <<hostVars, guiVars, delivered, cycle, nbad,
                   stopRequested, late>>

\* A collector raises: the dict is never built, neither emit nor msleep runs
\* and control is in `except Exception`.
CollectFault(t) ==
    /\ running
    /\ NotGui
    /\ pc[t] = "collect"
    /\ \E B \in FaultSets : nbad' = Cardinality(B)
    /\ pc' = [pc EXCEPT ![t] = "except"]
    /\ slept' = [slept EXCEPT ![t] = 0]
    /\ UNCHANGED <<hostVars, chanVars, guiVars, cur, cycle, stopRequested,
                   late>>

Except_exit(t) ==
    /\ running
    /\ NotGui
    /\ pc[t] = "except"
    /\ nbad' = 0
    /\ cur' = [cur EXCEPT ![t] = 0]
    /\ pc' = [pc EXCEPT ![t] = "finished"]
    /\ UNCHANGED <<hostVars, chanVars, guiVars, cycle, slept, stopRequested,
                   late>>

\* print(f"Monitoring error: {e}"), and the loop goes back to its top.
Except(t) ==
    /\ running
    /\ NotGui
    /\ pc[t] = "except"
    /\ nbad' = 0
    /\ cur' = [cur EXCEPT ![t] = 0]
    /\ pc' = [pc EXCEPT ![t] = "top"]
    /\ UNCHANGED <<hostVars, chanVars, guiVars, cycle, slept, stopRequested,
                   late>>

\* self.msleep(3500) has returned: one inter-cycle wait was performed.
msleep(s, t) == [s EXCEPT ![t] = s[t] + 1]

\* msleep(3500) returns.
Wake(t) ==
    /\ running
    /\ NotGui
    /\ pc[t] = "sleep"
    /\ pc' = [pc EXCEPT ![t] = "top"]
    /\ slept' = msleep(slept, t)
    /\ UNCHANGED <<hostVars, chanVars, guiVars, cur, cycle, nbad,
                   stopRequested, late>>

Monitor(t) ==
    RunTop(t) \/ CollectEmit(t) \/ CollectFault(t) \/ Except(t) \/ Wake(t)

\* ------------------------------------------------------- SystemDashboard
\* `if self.pinned_pid:` - None and pid 0 are both false.
PinTruthy(pin) == pin # None /\ pin # 0

highlight_none(tbl, pin) == {}

\* _highlight_pinned_process: the rows whose pid text equals the pin.
highlight_pinned_process(tbl, pin) ==
    {row \in 1..Len(tbl) : PinTruthy(pin) /\ ParseInt(tbl[row]) = pin}

\* psutil.Process(pin) and its name / cpu_percent / memory_info reads: they
\* return for a living process and raise when the process is gone or cannot
\* be read.  Which of the two is the host's choice.
Readable(pin) == IF pin = None THEN {FALSE} ELSE BOOLEAN

\* _update_processes, the list: the pinned process, sampled afresh, goes first
\* and its entry in the delivered list is filtered out.
update_processes_list(processes, pin, readable) ==
    IF PinTruthy(pin) /\ readable
    THEN <<pin>> \o SelectSeq(processes, LAMBDA proc : proc # pin)
    ELSE processes

update_processes_pin_keep(pin, readable) == pin

\* _update_processes, the pin: the bare except clears it.
update_processes_pin(pin, readable) ==
    IF PinTruthy(pin) /\ ~readable THEN None ELSE pin

\* The rows written by _update_table: column 0 is str(pid) of processes[:100].
display(processes) ==
    LET shown == Take(processes, ProcCap)
    IN [i \in 1..Len(shown) |-> Str(shown[i])]

\* The queued data_updated event is dispatched: _update_ui(data).  It also runs
\* inside the nested event loop of the confirmation dialog.
UpdateUi ==
    /\ running
    /\ UNCHANGED sortVars
    /\ queue # <<>>
    /\ LET processes == Head(queue).processes
       IN \E readable \in Readable(pinned_pid) :
            /\ table' = display(update_processes_list(processes, pinned_pid,
                                                      readable))
            /\ pinned_pid' = update_processes_pin(pinned_pid, readable)
            /\ last' = [op |-> "reconcile", pin |-> pinned_pid, pid |-> None,
                        hit |-> pinned_pid \in Range(processes),
                        ok |-> readable, msg |-> "none", shown |-> None]
    /\ highlighted' = highlight_pinned_process(table', pinned_pid')
    /\ delivered' = Append(delivered, Head(queue).id)
    /\ queue' = Tail(queue)
    /\ tog' = NoTog
    /\ UNCHANGED <<hostVars, monVars, emitted, dialog, stopRequested>>

\* _update_ui raises before it reaches _update_processes: _update_gpu runs
\* int(data[0]['load']), and GPUtil reports a load it cannot parse as NaN.  No
\* handler catches it and no sys.excepthook is installed, so PyQt6 calls
\* qFatal() and the process, monitor thread included, is aborted.
UpdateUiRaise ==
    /\ running
    /\ UNCHANGED sortVars
    /\ queue # <<>>
    /\ delivered' = Append(delivered, Head(queue).id)
    /\ queue' = Tail(queue)
    /\ running' = FALSE
    /\ last' = [op |-> "raise", pin |-> pinned_pid, pid |-> None,
                hit |-> FALSE, ok |-> FALSE, msg |-> "none", shown |-> None]
    /\ tog' = NoTog
    /\ UNCHANGED <<monVars, emitted, guiVars, stopRequested>>

toggle_set(pin, pid) == pid

\* _toggle_pinned_process: `pid if self.pinned_pid != pid else None`.
toggle(pin, pid) == IF pin # pid THEN pid ELSE None

\* A cell of process_table is clicked.
TogglePin ==
    /\ running
    /\ UNCHANGED sortVars
    /\ dialog = None
    /\ \E row \in 1..Len(table) :
         LET pid == ParseInt(table[row])
         IN /\ pinned_pid' = toggle(pinned_pid, pid)
            /\ last' = [op |-> "toggle", pin |-> pinned_pid, pid |-> pid,
                        hit |-> TRUE, ok |-> TRUE, msg |-> "none",
                        shown |-> None]
            /\ tog' = IF tog.n = 1 /\ tog.pid = pid
                      THEN [tog EXCEPT !.n = 2]
                      ELSE [n |-> 1, pid |-> pid, start |-> pinned_pid]
    /\ highlighted' = highlight_pinned_process(table, pinned_pid')
    /\ UNCHANGED <<hostVars, monVars, chanVars, table, dialog, stopRequested>>

\* psutil.Process(pid).terminate(): returns once the signal is sent, raises
\* for a process that is gone or cannot be signalled.
Terminate(pid) == BOOLEAN

\* The message box a terminate handler ends with: QMessageBox.information
\* after terminate() returned, QMessageBox.critical in `except Exception`.
report(ok) == IF ok THEN "information" ELSE "critical"

\* _kill_process leaves pinned_pid as it is.
kill_process_pin(pin, pid, ok) == pin

\* The Terminate button, with a row selected.
KillProcess ==
    /\ running
    /\ UNCHANGED sortVars
    /\ dialog = None
    /\ \E row \in 1..Len(table) :
         LET pid == ParseInt(table[row])
         IN \E ok \in Terminate(pid) :
              /\ pinned_pid' = kill_process_pin(pinned_pid, pid, ok)
              /\ last' = [op |-> "kill", pin |-> pinned_pid, pid |-> pid,
                          hit |-> TRUE, ok |-> ok, msg |-> report(ok),
                          shown |-> None]
    /\ tog' = NoTog
    /\ UNCHANGED <<running, monVars, chanVars, table, highlighted, dialog,
                   stopRequested>>

\* Ctrl+Z: _kill_pinned_process up to QMessageBox.question, which shows the pid
\* and spins a nested event loop; without a pin, only a warning is shown.
KillPinnedOpen ==
    /\ running
    /\ UNCHANGED sortVars
    /\ dialog = None
    /\ dialog' = IF PinTruthy(pinned_pid) THEN pinned_pid ELSE None
    /\ last' = [op |-> IF PinTruthy(pinned_pid) THEN "confirm" ELSE "warning",
                pin |-> pinned_pid, pid |-> None, hit |-> FALSE, ok |-> FALSE,
                msg |-> IF PinTruthy(pinned_pid) THEN "question" ELSE "warning",
                shown |-> dialog']
    /\ tog' = NoTog
    /\ UNCHANGED <<hostVars, monVars, chanVars, pinned_pid, table, highlighted,
                   stopRequested>>

\* The pid handed to psutil.Process on Yes: self.pinned_pid as it is by then.
\* psutil.Process(None) is the calling process itself.
TerminateTarget(pin) == pin

kill_pinned_pin_keep(pin, ok) == pin

\* _kill_pinned_process after a successful terminate: `self.pinned_pid = None`.
kill_pinned_pin(pin, ok) == IF ok THEN None ELSE pin

\* The confirmation is answered; on Yes, self.pinned_pid is read again.
KillPinnedAnswer ==
    /\ running
    /\ UNCHANGED sortVars
    /\ dialog # None
    /\ dialog' = None
    /\ tog' = NoTog
    /\ \E yes \in BOOLEAN :
         LET target == TerminateTarget(pinned_pid)
         IN IF ~yes
            THEN /\ last' = [op |-> "declined", pin |-> pinned_pid, pid |-> None,
                             hit |-> FALSE, ok |-> FALSE, msg |-> "none",
                             shown |-> dialog]
                 /\ UNCHANGED <<hostVars, pinned_pid, highlighted>>
            ELSE IF target = None
            THEN \* the application terminates itself
                 /\ running' = FALSE
                 /\ last' = [op |-> "killpinned", pin |-> pinned_pid,
                             pid |-> target, hit |-> FALSE, ok |-> TRUE,
                             msg |-> "none", shown |-> dialog]
                 /\ UNCHANGED <<pinned_pid, highlighted>>
            ELSE \E ok \in Terminate(target) :
                 /\ pinned_pid' = kill_pinned_pin(pinned_pid, ok)
                 /\ highlighted' =
                        IF ok THEN highlight_pinned_process(table, pinned_pid')
                        ELSE highlighted
                 /\ last' = [op |-> "killpinned", pin |-> pinned_pid,
                             pid |-> target, hit |-> FALSE, ok |-> ok,
                             msg |-> report(ok), shown |-> dialog]
                 /\ UNCHANGED running
    /\ UNCHANGED <<monVars, chanVars, table, stopRequested>>

Gui ==
    \/ UpdateUi \/ UpdateUiRaise
    \/ TogglePin \/ KillProcess \/ KillPinnedOpen \/ KillPinnedAnswer

Next ==
    \/ \E t \in Threads : Monitor(t)
    \/ Gui

Spec == Init /\ [][Next]_vars

\* The monitor thread is scheduled by the operating system, and app.exec()
\* keeps dispatching the events posted to the GUI thread.
FairSpec ==
    /\ Spec
    /\ \A t \in Threads : WF_vars(Monitor(t))
    /\ WF_vars(UpdateUi)

\* stop() of the scheduler interface.  SystemMonitor defines no stop of its
\* own; what a caller has is QThread's requestInterruption(), a flag that
\* run() would have to read.
RequestStop ==
    /\ running
    /\ ~stopRequested
    /\ stopRequested' = TRUE
    /\ NotGui
    /\ UNCHANGED <<hostVars, monVars, chanVars, guiVars>>

StopNext == Next \/ RequestStop

StopSpec == Init /\ [][StopNext]_vars

\* _get_process_data on its own: any enumeration order, names and readings.
AllEnumerations ==
    {e \in UNION {[1..n -> [pid : Pids, named : BOOLEAN, cpu : CpuVals]] :
                    n \in 0..(MaxPid + 1)} :
        \A i, j \in 1..Len(e) : i # j => e[i].pid # e[j].pid}

SortInit ==
    /\ InitApp
    /\ enumIn \in AllEnumerations
    /\ listOut = NotRun

SortRun ==
    /\ listOut = NotRun
    /\ listOut' = get_process_data(enumIn)
    /\ UNCHANGED <<hostVars, monVars, chanVars, guiVars, stopRequested, last,
                   tog, enumIn>>

SortSpec == SortInit /\ [][SortRun]_vars

\* ======================================================================
\* Pin reconciliation
\* ======================================================================
Reconciled == last.op = "reconcile"

RowsOf(pid) == {row \in 1..Len(table) : ParseInt(table[row]) = pid}

C2_PinnedFirst ==
    (Reconciled /\ last.pin # None /\ last.hit /\ last.ok) =>
        /\ Len(table) >= 1
        /\ RowsOf(last.pin) = {1}
        /\ pinned_pid = last.pin

\* ======================================================================
\* togglePin
\* ======================================================================
\* C3, as stated: two toggles of pid p in a row leave pinned_pid at its
\* starting value, whatever that value was.
C3_ToggleTwice_AsStated == tog.n = 2 => pinned_pid = tog.start

\* C3, amended: two toggles of pid p in a row leave pinned_pid at its starting
\* value when that value was None or p; when it was another pid q, pinned_pid
\* ends as None.
C3_ToggleTwice ==
    tog.n = 2 =>
        pinned_pid = (IF tog.start \in {None, tog.pid} THEN tog.start ELSE None)

\* The pinned pid was toggled twice in a row and is pinned again.
C3_Witness == tog.n = 2 /\ tog.start = tog.pid /\ pinned_pid = tog.pid


\* ======================================================================
\* The sampling loop
\* ======================================================================
InProgress == {t \in Threads : pc[t] = "collect"}

\* C4: a cycle in which exactly one of the six collectors fails still emits
\* its snapshot (the other five fields populated, a sentinel in the failing
\* one); the cycle is not aborted.
C4_FailureIsolated ==
    \A t \in Threads :
        (pc[t] = "except" /\ nbad = 1) =>
            \E i \in 1..Len(queue) :
                /\ queue[i].id = cur[t]
                /\ queue[i].fields = CollectorSet

\* C5: a cycle that raised does not end the loop: the next cycle begins, and
\* every cycle that begins, after faulted ones too, ends by emitting its
\* snapshot or by raising (unless the application itself is gone).
C5_LoopSurvives ==
    \A t \in Threads : \A n \in 1..MaxCycles :
        /\ (pc[t] = "except" /\ cur[t] = n /\ n < MaxCycles)
               ~> (cur[t] = n + 1 \/ ~running)
        /\ (pc[t] = "collect" /\ cur[t] = n)
               ~> (n \in Range(emitted) \/ pc[t] = "except" \/ ~running)

\* The first cycle raised and the second one emitted its snapshot.
C5_Witness == cycle = 2 /\ emitted = <<2>>

\* C6: after a stop request no new cycle starts, so no snapshot of a cycle
\* started after the request is emitted.
C6_NoCycleAfterStop == \A i \in 1..Len(emitted) : emitted[i] \notin late

\* C7: one thread runs the cycles, at most one cycle is in progress, and it
\* is the newest: every earlier cycle has emitted or raised.
C7_NoOverlap ==
    /\ Cardinality({t \in Threads : pc[t] # "unstarted"}) = 1
    /\ Cardinality(InProgress) <= 1
    /\ \A t \in Threads : cur[t] # 0 => cur[t] = cycle

\* The second cycle is collecting after the first one emitted.
C7_Witness == InProgress # {} /\ cycle = 2 /\ emitted = <<1>>

\* ======================================================================
\* _get_process_data
\* ======================================================================
Returned == listOut # NotRun

ByCpuDesc(l) == \A i, j \in 1..Len(l) : i < j => l[i][2] >= l[j][2]

TiesByPid(l) ==
    \A i, j \in 1..Len(l) : (i < j /\ l[i][2] = l[j][2]) => l[i][1] < l[j][1]

PosIn(e, pid) == CHOOSE k \in 1..Len(e) : e[k].pid = pid

TiesByEnumeration(l, e) ==
    \A i, j \in 1..Len(l) :
        (i < j /\ l[i][2] = l[j][2]) => PosIn(e, l[i][1]) < PosIn(e, l[j][1])

EnumAscending(e) == \A i, j \in 1..Len(e) : i < j => e[i].pid < e[j].pid

NamedOf(e) == {k \in 1..Len(e) : e[k].named}

\* The list is the head of the sorted whole: what was cut ranks no higher
\* than what was kept.
CutAfterSort(l, e) ==
    /\ Len(l) = (IF Cardinality(NamedOf(e)) < ProcCap
                 THEN Cardinality(NamedOf(e)) ELSE ProcCap)
    /\ \A i \in 1..Len(l) : \E k \in NamedOf(e) : l[i] = <<e[k].pid, e[k].cpu>>
    /\ \A k \in NamedOf(e) :
          e[k].pid \notin Range(PidsOf(l)) =>
              \A i \in 1..Len(l) : l[i][2] >= e[k].cpu

C9_TerminateClears_AsStated ==
    (last.op \in {"kill", "killpinned"} /\ last.ok /\ last.pin # None
        /\ last.pid = last.pin) => pinned_pid = None

\* pinned_pid goes from a pid to None in this step.
Cleared == pinned_pid # None /\ pinned_pid' = None

\* C9, amended: a terminate that succeeds on the pinned pid from Ctrl+Z
\* (_kill_pinned_process) leaves pinned_pid None on return; one from the
\* Terminate button (_kill_process) leaves pinned_pid as it was; pinned_pid
\* goes from a pid to None only through a toggle of that pid, a successful
\* _kill_pinned_process, or a reconciliation in which the query of the
\* pinned process raises.
C9_TerminateClears ==
    /\ [](last.op = "killpinned" /\ last.ok => pinned_pid = None)
    /\ [](last.op = "kill" => pinned_pid = last.pin)
    /\ [][Cleared =>
            \/ last'.op = "toggle" /\ last'.pid = pinned_pid
            \/ last'.op = "killpinned" /\ last'.ok /\ last'.pid = pinned_pid
            \/ last'.op = "reconcile" /\ ~last'.ok]_vars

\* Ctrl+Z terminated the pinned process and the pin is gone.
C9_Witness ==
    /\ last.op = "killpinned"
    /\ last.ok
    /\ PinTruthy(last.pin)
    /\ last.pid = last.pin
    /\ pinned_pid = None

\* ======================================================================
\* Delivery
\* ======================================================================
QueueIds == [i \in 1..Len(queue) |-> queue[i].id]

Increasing(s) == \A i, j \in 1..Len(s) : i < j => s[i] < s[j]

\* C10: every cycle that completes collection has its snapshot handed to
\* _update_ui exactly once, in the order the cycles ran, none dropped; a
\* cycle that raised delivers nothing.
C10_ExactlyOnceInOrder ==
    /\ [](/\ emitted = delivered \o QueueIds
          /\ Increasing(emitted)
          /\ \A i \in 1..Len(queue) : queue[i].fields = CollectorSet
          /\ \A t \in Threads :
                pc[t] \in {"collect", "except"} => cur[t] \notin Range(emitted)
          /\ \A t \in Threads :
                pc[t] = "sleep" => (cycle \in Range(emitted)))
    /\ \A n \in 1..MaxCycles :
          (n \in Range(emitted)) ~> (n \in Range(delivered) \/ ~running)

\* Two snapshots were delivered, one after the other.
C10_Witness == delivered = <<1, 2>>

\* The thread is inside run() with a step of the loop still to take.
MidLoop(t) ==
    \/ pc[t] \in {"collect", "sleep", "except"}
    \/ pc[t] = "top" /\ cycle < MaxCycles

\* C11: the sampling thread's progress never depends on the consumer: however
\* slow, blocked or raising _update_ui is, emit returns and the next step of
\* the loop can be taken.  (The application ending itself on Ctrl+Z is the
\* subject of C16 and is left out here.)
C11_NonBlocking ==
    \A t \in Threads :
        (MidLoop(t) /\ last.op # "killpinned") => ENABLED Monitor(t)

\* A step of the sampling thread.
MonitorStep == \E t \in Threads : Monitor(t)

\* A step in which _update_processes ran to its end.
ReconcileStep == last'.op = "reconcile"

\* C12: pinned_pid is written by GUI handlers only, never by the sampling
\* thread, and no toggle lands inside a reconciliation: the list is built and
\* highlighted with the one pin the reconciliation read, and a toggle neither
\* consumes a snapshot nor rewrites the table.
C12_SerializedPin ==
    /\ [][MonitorStep => pinned_pid' = pinned_pid]_vars
    /\ [][pinned_pid' # pinned_pid =>
              last'.op \in {"toggle", "killpinned", "reconcile"}]_vars
    /\ [][ReconcileStep =>
              /\ last'.pin = pinned_pid
              /\ pinned_pid' \in {pinned_pid, None}
              /\ PinTruthy(pinned_pid') =>
                    /\ table'[1] = Str(pinned_pid)
                    /\ highlighted' = {1}
              /\ ~PinTruthy(pinned_pid') => highlighted' = {}]_vars
    /\ [][last'.op = "toggle" =>
              /\ delivered' = delivered
              /\ queue' = queue
              /\ table' = table]_vars

\* A reconciliation ran on a pin set by an earlier toggle and kept it.
C12_Witness ==
    /\ Reconciled
    /\ PinTruthy(pinned_pid)
    /\ last.pin = pinned_pid
    /\ highlighted = {1}
    /\ Len(table) = 2

\* The terminate call of the latest handler raised.
TerminateRaised == last.op \in {"kill", "killpinned"} /\ ~last.ok

\* Yes was answered for a pid that was gone by then: a reconciliation inside
\* the dialog's event loop found no such process and cleared the pin.
ConfirmedPidGone ==
    last.op = "killpinned" /\ last.shown # None /\ last.pid # last.shown

\* The failure was reported, the pin is as before the command and the
\* sampling loop goes on.
Contained ==
    /\ last.msg = "critical"
    /\ pinned_pid = last.pin
    /\ running
    /\ \A t \in Threads : MidLoop(t) => ENABLED Monitor(t)

\* C13: a terminate issued, from _kill_process or _kill_pinned_process, for a
\* pid that does not exist or cannot be signalled is reported as an error,
\* leaves pinned_pid at the value it had before the command, and leaves the
\* sampling loop running and emitting.
C13_FailedTerminateContained ==
    (TerminateRaised \/ ConfirmedPidGone) => Contained

\* C14: between the start of a cycle and the start of the next one the thread
\* performs msleep(3500) exactly once, also when the earlier cycle raised: a
\* cycle that is not the thread's first starts after exactly one wait.
C14_FixedPacing ==
    \A t \in Threads : (pc[t] = "collect" /\ cur[t] > 1) => slept[t] = 1

\* The pids of the rows process_table holds after the step.
RowPids == [row \in 1..Len(table') |-> ParseInt(table'[row])]

\* The delivered list with the pinned pid put in front of it: when the list
\* is at the cap its lowest-ranked entry makes room.
PinnedInFront(pin, processes) ==
    <<pin>> \o (IF Len(processes) = ProcCap
                THEN Take(processes, ProcCap - 1)
                ELSE processes)

\* The pinned process answers on the host and the delivered list lacks it.
AliveButAbsent(pin, processes) ==
    pin # None /\ pin \notin Range(processes) /\ last'.ok

\* C15: for every delivered list and every value of pinned_pid, pid 0
\* included, the rows _update_processes writes are at most the cap and hold no
\* pid twice; when the pinned process is alive but not in the delivered list
\* it takes row 0 and the lowest-ranked delivered entry is the one dropped.
C15_DisplayCap ==
    [][ReconcileStep =>
          LET processes == Head(queue).processes
          IN /\ Len(RowPids) <= ProcCap
             /\ NoDup(RowPids)
             /\ AliveButAbsent(pinned_pid, processes) =>
                    RowPids = PinnedInFront(pinned_pid, processes)]_vars

\* C16: the pid _kill_pinned_process hands to terminate after Yes is the pid
\* that was pinned and shown when the confirmation opened, and never None,
\* also when a queued snapshot was delivered while the dialog was open.
C16_KillsConfirmedPid ==
    last.op = "killpinned" => (last.pid = last.shown /\ last.pid # None)

====
